---- MODULE Spec2Model ----
(***************************************************************************)
(* A model of src/src/index.ts: the word-addressable Storage, the CPU's    *)
(* fetch-decode-execute cycle, the Process record, the round-robin         *)
(* Scheduler, the Timer and the SimpleOS coordinator.                      *)
(*                                                                         *)
(* The program runs on a JavaScript event loop: a method runs to its end   *)
(* before any other call or timer callback starts.  The position of the    *)
(* one thread of control is pc; "idle" is the empty call stack.            *)
(***************************************************************************)
EXTENDS Integers, Sequences, FiniteSets, TLC

VARIABLES
    queue,                \* Scheduler.processQueue: the Process objects, in insertion order
    currentProcessIndex,  \* Scheduler.currentProcessIndex (0-based)
    processes,            \* SimpleOS.processes: pid -> position in queue, 0 = no entry
    timerId,              \* Timer.timerId: 0 = null, else the id of the last interval set
    intervals,            \* the intervals the runtime holds active (setInterval, not yet cleared)
    pc,                   \* where the thread of control is inside executeProcess / run
    process,              \* the local `process` of executeProcess / run: a queue position, 0 = null
    thrown,               \* the error the last SimpleOS call propagated to its caller
    lastOp,               \* Scheduler or Timer driven alone: the last method called on it
    returned,             \* Scheduler driven alone: what schedule() returned since the last addProcess
    cpuAlone,             \* CPU driven alone: its registers and its instruction pointer
    storage,              \* CPU driven alone: the Storage it executes from
    raised,               \* CPU driven alone: the error the last execute() raised
    delivered             \* Timer driven alone: the intervals whose callback ran since the last start() / stop()

\* The state of the CPU and the Timer when each is driven alone.
aloneVars == <<cpuAlone, storage, raised, delivered>>

vars == <<queue, currentProcessIndex, processes, timerId, intervals, pc, process,
          thrown, lastOp, returned, aloneVars>>

-----------------------------------------------------------------------------
(* Bounds of the model.                                                    *)

MaxProcs == 2        \* createProcess calls made on one SimpleOS
MaxPid == 1          \* pids are drawn from 0..MaxPid (the code: 0..9999)
MaxQueue == 3        \* Scheduler driven alone: processes added
MaxCalls == 4        \* Scheduler driven alone: schedule() calls recorded between two adds
MaxExecProcs == 1    \* processes in the single-process execution scenario

Pids == 0..MaxPid

-----------------------------------------------------------------------------
(* JavaScript values held in memory: a number, NaN, or undefined.          *)

Num(n) == [tag |-> "number", val |-> n]
NaN == [tag |-> "NaN", val |-> 0]
undefined == [tag |-> "undefined", val |-> 0]

\* ToInt32, applied by the operators & and >> to their operands: NaN and
\* undefined become 0.  Every number of the model lies in -2^31 .. 2^31 - 1,
\* where ToInt32 leaves a number as it is.
ToInt32(w) == IF w.tag = "number" THEN w.val ELSE 0

-----------------------------------------------------------------------------
(* Storage                                                                 *)

\* new Array(size).fill(0)
NewStorage(size) == [i \in 1..size |-> Num(0)]

\* this.memory[address]: an index outside the array reads undefined.
StorageRead(memory, address) ==
    IF address >= 0 /\ address < Len(memory) THEN memory[address + 1] ELSE undefined

\* this.memory[address] = data, for address >= 0: an index at or past the end
\* grows the array, the slots in between left as holes that read undefined.
StorageWrite(memory, address, data) ==
    IF address < Len(memory)
    THEN [memory EXCEPT ![address + 1] = data]
    ELSE [i \in 1..(address + 1) |->
            IF i <= Len(memory) THEN memory[i]
            ELSE IF i = address + 1 THEN data ELSE undefined]

-----------------------------------------------------------------------------
(* RegisterFile, ALU, ControlUnit, CPU                                     *)

\* Array.from({ length: size }, () => new Register()): every register 0.
NewRegisterFile(size) == [i \in 1..size |-> 0]

\* this.registers[index] is undefined outside 0..size-1, and .read() / .write()
\* on it raises a TypeError.
RegisterInRange(registers, index) == index >= 0 /\ index < Len(registers)

RegisterRead(registers, index) == registers[index + 1]

RegisterWrite(registers, index, data) == [registers EXCEPT ![index + 1] = data]

\* An ALU whose every operation adds.
ALUExecute_AlwaysAdd(operation, operand1, operand2) == operand1 + operand2

ALUExecute(operation, operand1, operand2) ==
    CASE operation = "ADD" -> operand1 + operand2
      [] operation = "SUB" -> operand1 - operand2
      [] operation = "MUL" -> operand1 * operand2

\* An opcode taken with the mask 0x7000.
Opcode_ThreeBits(instruction) == ((ToInt32(instruction) % 65536) \div 4096) % 8

\* The four 4-bit fields of an instruction word.
Opcode(instruction) == (ToInt32(instruction) % 65536) \div 4096
Operand1(instruction) == (ToInt32(instruction) % 4096) \div 256
Operand2(instruction) == (ToInt32(instruction) % 256) \div 16
Destination(instruction) == ToInt32(instruction) % 16

NewCPU(registerCount) ==
    [registers |-> NewRegisterFile(registerCount), instructionPointer |-> 0]

\* One CPU.execute(memory): the CPU after the cycle and the error it raised.
\* The fetch advances the instruction pointer before anything can raise.
CPUExecute(cpu, memory) ==
    LET instruction == StorageRead(memory, cpu.instructionPointer)
        fetched == [cpu EXCEPT !.instructionPointer = @ + 1]
        opcode == Opcode(instruction)
        operand1 == Operand1(instruction)
        operand2 == Operand2(instruction)
        destination == Destination(instruction)
        operation == IF opcode = 1 THEN "ADD" ELSE "SUB"
    IN  IF opcode \in {1, 2}
        THEN IF /\ RegisterInRange(cpu.registers, operand1)
                /\ RegisterInRange(cpu.registers, operand2)
                /\ RegisterInRange(cpu.registers, destination)
             THEN [cpu |-> [fetched EXCEPT !.registers =
                              RegisterWrite(@, destination,
                                  ALUExecute(operation,
                                      RegisterRead(cpu.registers, operand1),
                                      RegisterRead(cpu.registers, operand2)))],
                   error |-> "none"]
             ELSE [cpu |-> fetched, error |-> "TypeError"]
        ELSE [cpu |-> fetched, error |-> "UnknownOpcode"]

-----------------------------------------------------------------------------
(* Process                                                                 *)

NewProcess(pid, memorySize, registerCount) ==
    [pid |-> pid,
     memory |-> NewStorage(memorySize),
     registers |-> NewRegisterFile(registerCount),
     instructionPointer |-> 0,
     state |-> "ready"]

\* Text is a sequence of one-character strings.
Digits == {"0", "1", "2", "3", "4", "5", "6", "7", "8", "9"}

DigitValue(c) ==
    CASE c = "0" -> 0 [] c = "1" -> 1 [] c = "2" -> 2 [] c = "3" -> 3 [] c = "4" -> 4
      [] c = "5" -> 5 [] c = "6" -> 6 [] c = "7" -> 7 [] c = "8" -> 8 [] c = "9" -> 9

RECURSIVE SplitFrom(_, _, _)
SplitFrom(text, separator, piece) ==
    IF text = <<>> THEN <<piece>>
    ELSE IF Head(text) = separator
         THEN <<piece>> \o SplitFrom(Tail(text), separator, <<>>)
         ELSE SplitFrom(Tail(text), separator, Append(piece, Head(text)))

\* program.split(','): always at least one piece.
Split(text, separator) == SplitFrom(text, separator, <<>>)

RECURSIVE StripLeadingSpace(_)
StripLeadingSpace(text) ==
    IF text # <<>> /\ Head(text) \in {" ", "\t", "\n"}
    THEN StripLeadingSpace(Tail(text))
    ELSE text

RECURSIVE DigitPrefix(_, _, _)
DigitPrefix(text, any, value) ==
    IF text # <<>> /\ Head(text) \in Digits
    THEN DigitPrefix(Tail(text), TRUE, 10 * value + DigitValue(Head(text)))
    ELSE [any |-> any, value |-> value]

\* parseInt(num, 10): leading white space, an optional sign, then the longest
\* prefix of decimal digits; NaN when there is no digit.
ParseInt10(text) ==
    LET s == StripLeadingSpace(text)
        signed == s # <<>> /\ Head(s) \in {"+", "-"}
        sign == IF signed /\ Head(s) = "-" THEN -1 ELSE 1
        body == IF signed THEN Tail(s) ELSE s
        d == DigitPrefix(body, FALSE, 0)
    IN  IF d.any THEN Num(sign * d.value) ELSE NaN

RECURSIVE WriteAll(_, _, _)
WriteAll(memory, instructions, index) ==
    IF index >= Len(instructions) THEN memory
    ELSE WriteAll(StorageWrite(memory, index, instructions[index + 1]),
                  instructions, index + 1)

\* Process.loadProgram: the memory after it.
LoadProgram(memory, program) ==
    LET pieces == Split(program, ",")
        instructions == [i \in 1..Len(pieces) |-> ParseInt10(pieces[i])]
    IN  WriteAll(memory, instructions, 0)

-----------------------------------------------------------------------------
(* Scheduler                                                               *)

\* A cursor that never advances.
NextIndex_Stay(index, length) == index % length

\* A cursor that advances without wrapping around.
NextIndex_NoWrap(index, length) == index + 1

\* A cursor that advances by two.
NextIndex_Skip(index, length) == (index + 2) % length

\* (this.currentProcessIndex + 1) % this.processQueue.length
NextIndex(index, length) == (index + 1) % length

\* schedule(): the queue position returned (0 = null) and the cursor after it.
Schedule(q, index) ==
    IF Len(q) = 0
    THEN [process |-> 0, index |-> index]
    ELSE [process |-> index + 1, index |-> NextIndex(index, Len(q))]

Running(q) == {i \in 1..Len(q) : q[i].state = "running"}

\* this.processQueue.find(p => p.state === 'running'): the first one, 0 = none.
FindRunning(q) ==
    IF Running(q) = {} THEN 0
    ELSE CHOOSE i \in Running(q) : \A j \in Running(q) : i <= j

\* A preempt() that looks for p.state !== 'ready'.
Preempt_AnyNotReady(q) ==
    LET others == {i \in 1..Len(q) : q[i].state # "ready"}
    IN  IF others = {} THEN q
        ELSE [q EXCEPT ![CHOOSE i \in others : \A j \in others : i <= j].state = "ready"]

\* A preempt() that parks the running process as 'waiting'.
Preempt_ToWaiting(q) ==
    IF Running(q) = {} THEN q
    ELSE [q EXCEPT ![CHOOSE i \in Running(q) : \A j \in Running(q) : i <= j].state = "waiting"]

\* preempt(): the queue after it.
Preempt(q) ==
    LET runningProcess == FindRunning(q)
    IN  IF runningProcess # 0
        THEN [q EXCEPT ![runningProcess].state = "ready"]
        ELSE q

-----------------------------------------------------------------------------
(* Timer                                                                   *)

\* setInterval returns a handle no live interval has.
FreshInterval(live) ==
    CHOOSE n \in 1..(Cardinality(live) + 1) : n \notin live

\* start(): the handle is stored over whatever timerId held.
TimerStart(id, live) ==
    LET n == FreshInterval(live)
    IN  [timerId |-> n, intervals |-> live \cup {n}]

\* stop(): clears the interval timerId names, if it names one.
TimerStop(id, live) ==
    IF id # 0
    THEN [timerId |-> 0, intervals |-> live \ {id}]
    ELSE [timerId |-> id, intervals |-> live]

-----------------------------------------------------------------------------
(* SimpleOS                                                                *)

\* A catch block that parks the process as 'waiting'.
CycleEndState_WaitingOnError(error) == IF error = "none" THEN "terminated" ELSE "waiting"

\* A catch block that does not assign the state.
CycleEndState_RunningOnError(error) == IF error = "none" THEN "terminated" ELSE "running"

\* The state both the try block (on success) and the catch block leave the
\* process in.
CycleEndState(error) == "terminated"

\* const cpu = new CPU(process.registers["registers"].length);
\* cpu.execute(process.memory): the outcome of the cycle for process p.
Cycle(p) == CPUExecute(NewCPU(Len(p.registers)), p.memory)

\* new SimpleOS(): an empty scheduler, an empty process table, a timer not started.
InitOS ==
    /\ queue = <<>>
    /\ currentProcessIndex = 0
    /\ processes = [pid \in Pids |-> 0]
    /\ timerId = 0
    /\ intervals = {}
    /\ pc = "idle"
    /\ process = 0
    /\ thrown = "none"
    /\ lastOp = [name |-> "new", running |-> 0]
    /\ returned = <<>>
    /\ delivered = <<>>

\* No CPU stands beside the coordinator: it makes one for each cycle.
Init ==
    /\ InitOS
    /\ cpuAlone = NewCPU(0)
    /\ storage = NewStorage(0)
    /\ raised = "none"

\* createProcess, pid standing for Math.floor(Math.random() * 10000).
CreateProcess(pid, memorySize, registerCount) ==
    /\ pc = "idle"
    /\ queue' = Append(queue, NewProcess(pid, memorySize, registerCount))
    /\ processes' = [processes EXCEPT ![pid] = Len(queue) + 1]
    /\ thrown' = "none"
    /\ UNCHANGED <<aloneVars, currentProcessIndex, timerId, intervals, pc, process, lastOp, returned>>

LoadProgramIntoProcess(pid, program) ==
    /\ pc = "idle"
    /\ IF processes[pid] = 0
       THEN /\ thrown' = "ProcessNotFound"
            /\ UNCHANGED queue
       ELSE /\ queue' = [queue EXCEPT ![processes[pid]].memory = LoadProgram(@, program)]
            /\ thrown' = "none"
    /\ UNCHANGED <<aloneVars, currentProcessIndex, processes, timerId, intervals, pc, process,
                   lastOp, returned>>

\* An executeProcess that dispatches the process whatever its state.
ExecuteProcess_NoStateTest(pid) ==
    /\ pc = "idle"
    /\ IF processes[pid] = 0
       THEN /\ thrown' = "ProcessNotFound"
            /\ UNCHANGED <<queue, pc, process>>
       ELSE /\ thrown' = "none"
            /\ queue' = [queue EXCEPT ![processes[pid]].state = "running"]
            /\ process' = processes[pid]
            /\ pc' = "exec_cpu"
    /\ UNCHANGED <<aloneVars, currentProcessIndex, processes, timerId, intervals, lastOp, returned>>

\* An executeProcess that returns silently when the pid has no entry.
ExecuteProcess_SilentNotFound(pid) ==
    /\ pc = "idle"
    /\ thrown' = "none"
    /\ IF processes[pid] # 0 /\ queue[processes[pid]].state = "ready"
       THEN /\ queue' = [queue EXCEPT ![processes[pid]].state = "running"]
            /\ process' = processes[pid]
            /\ pc' = "exec_cpu"
       ELSE UNCHANGED <<queue, pc, process>>
    /\ UNCHANGED <<aloneVars, currentProcessIndex, processes, timerId, intervals, lastOp, returned>>

\* executeProcess up to the try block: the lookup, the state test, the dispatch.
ExecuteProcess(pid) ==
    /\ pc = "idle"
    /\ IF processes[pid] = 0
       THEN /\ thrown' = "ProcessNotFound"
            /\ UNCHANGED <<queue, pc, process>>
       ELSE /\ thrown' = "none"
            /\ IF queue[processes[pid]].state = "ready"
               THEN /\ queue' = [queue EXCEPT ![processes[pid]].state = "running"]
                    /\ process' = processes[pid]
                    /\ pc' = "exec_cpu"
               ELSE UNCHANGED <<queue, pc, process>>
    /\ UNCHANGED <<aloneVars, currentProcessIndex, processes, timerId, intervals, lastOp, returned>>

\* An executeProcess whose catch block raises the error again.
ExecuteCycle_Rethrow ==
    /\ pc = "exec_cpu"
    /\ queue' = [queue EXCEPT ![process].state = "terminated"]
    /\ pc' = "idle"
    /\ process' = 0
    /\ thrown' = Cycle(queue[process]).error
    /\ UNCHANGED <<aloneVars, currentProcessIndex, processes, timerId, intervals, lastOp, returned>>

\* executeProcess from the try block to its return.
ExecuteCycle ==
    /\ pc = "exec_cpu"
    /\ queue' = [queue EXCEPT ![process].state = CycleEndState(Cycle(queue[process]).error)]
    /\ pc' = "idle"
    /\ process' = 0
    /\ thrown' = "none"
    /\ UNCHANGED <<aloneVars, currentProcessIndex, processes, timerId, intervals, lastOp, returned>>

\* preemptProcess: called on the coordinator, or delivered by the interval;
\* either way only on an empty call stack.
PreemptProcess ==
    /\ pc = "idle"
    /\ queue' = Preempt(queue)
    /\ thrown' = "none"
    /\ UNCHANGED <<aloneVars, currentProcessIndex, processes, timerId, intervals, pc, process,
                   lastOp, returned>>

\* run up to the loop: the first schedule() and timer.start().
Run ==
    /\ pc = "idle"
    /\ process' = Schedule(queue, currentProcessIndex).process
    /\ currentProcessIndex' = Schedule(queue, currentProcessIndex).index
    /\ timerId' = TimerStart(timerId, intervals).timerId
    /\ intervals' = TimerStart(timerId, intervals).intervals
    /\ pc' = "run_loop"
    /\ thrown' = "none"
    /\ UNCHANGED <<aloneVars, queue, processes, lastOp, returned>>

\* The loop test of run: leave the loop and stop the timer on null, dispatch a
\* ready process, or pass over any other process with the next schedule().
RunLoop ==
    /\ pc = "run_loop"
    /\ IF process = 0
       THEN /\ timerId' = TimerStop(timerId, intervals).timerId
            /\ intervals' = TimerStop(timerId, intervals).intervals
            /\ pc' = "idle"
            /\ UNCHANGED <<queue, process, currentProcessIndex>>
       ELSE IF queue[process].state = "ready"
       THEN /\ queue' = [queue EXCEPT ![process].state = "running"]
            /\ pc' = "run_cpu"
            /\ UNCHANGED <<process, currentProcessIndex, timerId, intervals>>
       ELSE /\ process' = Schedule(queue, currentProcessIndex).process
            /\ currentProcessIndex' = Schedule(queue, currentProcessIndex).index
            /\ UNCHANGED <<queue, pc, timerId, intervals>>
    /\ UNCHANGED <<aloneVars, processes, thrown, lastOp, returned>>

\* The try block of run and the schedule() that ends the iteration.
RunCycle ==
    /\ pc = "run_cpu"
    /\ queue' = [queue EXCEPT ![process].state = CycleEndState(Cycle(queue[process]).error)]
    /\ process' = Schedule(queue, currentProcessIndex).process
    /\ currentProcessIndex' = Schedule(queue, currentProcessIndex).index
    /\ pc' = "run_loop"
    /\ UNCHANGED <<aloneVars, processes, timerId, intervals, thrown, lastOp, returned>>

\* The arguments the calls are made with.
ProcessShapes == {<<16, 4>>, <<0, 2>>}
Text4384 == <<"4", "3", "8", "4">>
Text36864and0x1120 == <<"3", "6", "8", "6", "4", ",", "0", "x", "1", "1", "2", "0">>
Programs == {Text4384, Text36864and0x1120}

Next ==
    \/ \E pid \in Pids, shape \in ProcessShapes :
          Len(queue) < MaxProcs /\ CreateProcess(pid, shape[1], shape[2])
    \/ \E pid \in Pids, program \in Programs : LoadProgramIntoProcess(pid, program)
    \/ \E pid \in Pids : ExecuteProcess(pid)
    \/ ExecuteCycle
    \/ PreemptProcess
    \/ Run
    \/ RunLoop
    \/ RunCycle

Spec == Init /\ [][Next]_vars

-----------------------------------------------------------------------------
(* One process executed with a register bank its creator has written: the  *)
(* Process that createProcess returns has public fields, and the caller    *)
(* writes its registers as the demo at the end of the source writes the    *)
(* CPU's.                                                                  *)

\* process.registers.write(index, data) on the process of pid.
WriteProcessRegister(pid, index, data) ==
    /\ pc = "idle"
    /\ processes[pid] # 0
    /\ IF RegisterInRange(queue[processes[pid]].registers, index)
       THEN /\ queue' = [queue EXCEPT ![processes[pid]].registers =
                            RegisterWrite(@, index, data)]
            /\ thrown' = "none"
       ELSE /\ thrown' = "TypeError"
            /\ UNCHANGED queue
    /\ UNCHANGED <<aloneVars, currentProcessIndex, processes, timerId, intervals, pc, process,
                   lastOp, returned>>

RegisterWrites == {<<1, 5>>, <<2, 10>>, <<4, 5>>}

\* The programs loaded here: those above and the empty text.
ProgramsExec == Programs \cup {<<>>}

NextExec ==
    \/ \E pid \in Pids, shape \in ProcessShapes :
          Len(queue) < MaxExecProcs /\ CreateProcess(pid, shape[1], shape[2])
    \/ \E pid \in Pids, w \in RegisterWrites : WriteProcessRegister(pid, w[1], w[2])
    \/ \E pid \in Pids, program \in ProgramsExec : LoadProgramIntoProcess(pid, program)
    \/ \E pid \in Pids : ExecuteProcess(pid)
    \/ ExecuteCycle

SpecExec == Init /\ [][NextExec]_vars

-----------------------------------------------------------------------------
(* The Scheduler driven alone, by a caller that adds processes in any of   *)
(* the declared states (Process.state is a public field) and records what  *)
(* it called and what schedule() returned.                                 *)

States == {"ready", "running", "waiting", "terminated"}

Called(name) == [name |-> name, running |-> Cardinality(Running(queue))]

SchedAddProcess(state) ==
    /\ Len(queue) < MaxQueue
    /\ queue' = Append(queue, [NewProcess(Len(queue), 0, 0) EXCEPT !.state = state])
    /\ lastOp' = Called("addProcess")
    /\ returned' = <<>>
    /\ UNCHANGED <<aloneVars, currentProcessIndex, processes, timerId, intervals, pc, process, thrown>>

SchedSchedule ==
    /\ Len(returned) < MaxCalls
    /\ returned' = Append(returned, Schedule(queue, currentProcessIndex).process)
    /\ currentProcessIndex' = Schedule(queue, currentProcessIndex).index
    /\ lastOp' = Called("schedule")
    /\ UNCHANGED <<aloneVars, queue, processes, timerId, intervals, pc, process, thrown>>

SchedPreempt ==
    /\ queue' = Preempt(queue)
    /\ lastOp' = Called("preempt")
    /\ UNCHANGED <<aloneVars, currentProcessIndex, processes, timerId, intervals, pc, process,
                   thrown, returned>>

NextSched ==
    \/ \E state \in States : SchedAddProcess(state)
    \/ SchedSchedule
    \/ SchedPreempt

SpecSched == Init /\ [][NextSched]_vars

-----------------------------------------------------------------------------
(* The CPU driven alone, as the demo at the end of the source drives it: a *)
(* Storage and a CPU are made, words are written to the storage, registers *)
(* are written through cpu["registers"], and execute() runs cycles.        *)

MaxCycles == 2       \* execute() calls made on the one CPU

RegisterCounts == {2, 4}
StorageSizes == {1, 256}
InstructionWords == {0, 4384, 8480, 36864}    \* 0x0000, 0x1120, 0x2120, 0x9000
WrittenAddresses == {0, 1}
CpuRegisterWrites == {<<0, 5>>, <<1, 10>>, <<1, 5>>, <<2, 10>>}

InitCPU ==
    /\ InitOS
    /\ cpuAlone \in {NewCPU(n) : n \in RegisterCounts}
    /\ storage \in {NewStorage(n) : n \in StorageSizes}
    /\ raised = "none"

osVars == <<queue, currentProcessIndex, processes, timerId, intervals, pc, process,
            thrown, lastOp, returned>>

\* storage.write(address, data)
CpuStorageWrite(address, data) ==
    /\ storage' = StorageWrite(storage, address, Num(data))
    /\ UNCHANGED <<osVars, cpuAlone, raised, delivered>>

\* cpu["registers"].write(index, data), on a register the bank has.
CpuRegisterWrite(index, data) ==
    /\ RegisterInRange(cpuAlone.registers, index)
    /\ cpuAlone' = [cpuAlone EXCEPT !.registers = RegisterWrite(@, index, data)]
    /\ UNCHANGED <<osVars, storage, raised, delivered>>

\* cpu.execute(storage), inside the caller's try / catch.
CpuExecute ==
    /\ cpuAlone.instructionPointer < MaxCycles
    /\ cpuAlone' = CPUExecute(cpuAlone, storage).cpu
    /\ raised' = CPUExecute(cpuAlone, storage).error
    /\ UNCHANGED <<osVars, storage, delivered>>

NextCPU ==
    \/ \E address \in WrittenAddresses, data \in InstructionWords :
          CpuStorageWrite(address, data)
    \/ \E w \in CpuRegisterWrites : CpuRegisterWrite(w[1], w[2])
    \/ CpuExecute

SpecCPU == InitCPU /\ [][NextCPU]_vars

-----------------------------------------------------------------------------
(* The Timer driven alone: the timer of a coordinator that holds no        *)
(* process, started and stopped by a caller, its callback delivered by the *)
(* runtime for any interval still set, between calls.                      *)

MaxIntervals == 3    \* intervals set and not cleared
MaxDeliveries == 4   \* callbacks recorded between two calls

\* timer.start()
TimerStartCall ==
    /\ Cardinality(intervals) < MaxIntervals
    /\ timerId' = TimerStart(timerId, intervals).timerId
    /\ intervals' = TimerStart(timerId, intervals).intervals
    /\ lastOp' = Called("start")
    /\ delivered' = <<>>
    /\ UNCHANGED <<queue, currentProcessIndex, processes, pc, process, thrown, returned,
                   cpuAlone, storage, raised>>

\* timer.stop()
TimerStopCall ==
    /\ timerId' = TimerStop(timerId, intervals).timerId
    /\ intervals' = TimerStop(timerId, intervals).intervals
    /\ lastOp' = Called("stop")
    /\ delivered' = <<>>
    /\ UNCHANGED <<queue, currentProcessIndex, processes, pc, process, thrown, returned,
                   cpuAlone, storage, raised>>

\* The runtime runs the callback of a set interval: () => this.preemptProcess().
TimerCallback(id) ==
    /\ id \in intervals
    /\ pc = "idle"
    /\ Len(delivered) < MaxDeliveries
    /\ queue' = Preempt(queue)
    /\ delivered' = Append(delivered, id)
    /\ UNCHANGED <<currentProcessIndex, processes, timerId, intervals, pc, process, thrown,
                   lastOp, returned, cpuAlone, storage, raised>>

NextTimer ==
    \/ TimerStartCall
    \/ TimerStopCall
    \/ \E id \in 1..MaxIntervals : TimerCallback(id)

SpecTimer == Init /\ [][NextTimer]_vars

-----------------------------------------------------------------------------
(* run() under the scheduling the runtime gives it: the thread that is in  *)
(* a call goes on executing it.                                            *)

\* The one program loaded: a cycle on it succeeds on 16 words and 4 registers,
\* and a cycle on a memory never loaded raises.
ProgramsFair == {Text4384}

NextFair ==
    \/ \E pid \in Pids, shape \in ProcessShapes :
          Len(queue) < MaxProcs /\ CreateProcess(pid, shape[1], shape[2])
    \/ \E pid \in Pids, program \in ProgramsFair : LoadProgramIntoProcess(pid, program)
    \/ \E pid \in Pids : ExecuteProcess(pid)
    \/ ExecuteCycle
    \/ PreemptProcess
    \/ Run
    \/ RunLoop
    \/ RunCycle

FairSpec ==
    /\ Init
    /\ [][NextFair]_vars
    /\ WF_vars(RunLoop) /\ WF_vars(RunCycle) /\ WF_vars(ExecuteCycle)

-----------------------------------------------------------------------------
(* The claims.                                                             *)

AllTerminated == \A i \in 1..Len(queue) : queue[i].state = "terminated"

\* C1: run() terminates: when the loop of run() comes to its test with every
\* registered process Terminated, it leaves the loop and run() returns.
C1_RunReturnsOnceAllTerminated ==
    [][(pc = "run_loop" /\ AllTerminated) => pc' = "idle"]_vars

\* C2: Terminated is terminal: a process that is Terminated is still in the
\* queue and still Terminated after any step.
C2_TerminatedIsTerminal ==
    [][\A i \in 1..Len(queue) :
          queue[i].state = "terminated" =>
              i <= Len(queue') /\ queue'[i].state = "terminated"]_vars

\* run() comes back to a process that is already Terminated.
C2_Witness ==
    pc = "run_loop" /\ process # 0 /\ queue[process].state = "terminated"

Transitions ==
    {<<"ready", "running">>, <<"running", "terminated">>, <<"running", "ready">>}

\* C3: every change of a process's state is Ready -> Running, Running ->
\* Terminated or Running -> Ready; a new process starts Ready; no process is
\* ever Waiting.
C3_OnlyLifecycleTransitions ==
    [][/\ \A i \in 1..Len(queue) :
             /\ i <= Len(queue')
             /\ queue'[i].state # queue[i].state =>
                    <<queue[i].state, queue'[i].state>> \in Transitions
       /\ \A i \in (Len(queue) + 1)..Len(queue') : queue'[i].state = "ready"
       /\ \A i \in 1..Len(queue') : queue'[i].state # "waiting"]_vars

\* One process has been dispatched and Terminated, another is dispatched.
C3_Witness ==
    \E i, j \in 1..Len(queue) :
        queue[i].state = "terminated" /\ queue[j].state = "running"

\* C4: at most one process of the scheduler queue is Running.
C4_AtMostOneRunning == Cardinality(Running(queue)) <= 1

C4_Witness == Len(queue) >= 2 /\ Cardinality(Running(queue)) = 1

\* C5: round-robin.  With no addProcess in between, consecutive schedule()
\* calls on a queue of n >= 1 processes return queue members, each the
\* successor in insertion order (the first after the last) of the one before,
\* whatever the processes' states; any n consecutive calls return each member
\* once; on [p0,p1,p2] four calls that start at p0 return p0,p1,p2,p0; on an
\* empty queue schedule() returns none.
C5_RoundRobin ==
    LET n == Len(queue)
        m == Len(returned)
    IN  /\ n = 0 => \A k \in 1..m : returned[k] = 0
        /\ n >= 1 =>
              /\ \A k \in 1..m : returned[k] \in 1..n
              /\ \A k \in 1..(m - 1) : returned[k + 1] = (returned[k] % n) + 1
              /\ \A j \in 1..(m - n + 1) : {returned[k] : k \in j..(j + n - 1)} = 1..n
        /\ (n = 3 /\ m = 4 /\ returned[1] = 1) => returned = <<1, 2, 3, 1>>

\* Four calls on three processes, none of them Ready.
C5_Witness ==
    /\ Len(queue) = 3
    /\ returned = <<1, 2, 3, 1>>
    /\ \A i \in 1..3 : queue[i].state # "ready"

\* C6: preempt() with no Running process changes nothing; with exactly one it
\* sets that process to Ready and leaves every other process, the queue order
\* and the cursor as they were.
C6_PreemptFrame ==
    [][SchedPreempt =>
          /\ currentProcessIndex' = currentProcessIndex
          /\ Len(queue') = Len(queue)
          /\ Running(queue) = {} => queue' = queue
          /\ Cardinality(Running(queue)) = 1 =>
                \A i \in 1..Len(queue) :
                    IF i \in Running(queue)
                    THEN queue'[i] = [queue[i] EXCEPT !.state = "ready"]
                    ELSE queue'[i] = queue[i]]_vars

\* preempt() was called with exactly one Running process among three.
C6_Witness ==
    /\ lastOp = [name |-> "preempt", running |-> 1]
    /\ Len(queue) = 3
    /\ Running(queue) = {}

\* C7: pid uniqueness: the created processes have pairwise different pids and
\* the process table holds one entry per created process.
C7_PidsUnique ==
    /\ \A i, j \in 1..Len(queue) : i # j => queue[i].pid # queue[j].pid
    /\ Cardinality({pid \in Pids : processes[pid] # 0}) = Len(queue)

\* C8: an error raised inside the CPU cycle of executeProcess or run is not
\* propagated: the owning process ends Terminated, every other process and the
\* process table are as before, and control goes on (executeProcess returns,
\* run goes on to its loop test).
C8_CycleErrorContained ==
    [][(pc \in {"exec_cpu", "run_cpu"} /\ Cycle(queue[process]).error # "none") =>
          /\ Len(queue') = Len(queue)
          /\ queue'[process] = [queue[process] EXCEPT !.state = "terminated"]
          /\ \A i \in 1..Len(queue) : i # process => queue'[i] = queue[i]
          /\ processes' = processes
          /\ thrown' = "none"
          /\ pc' = IF pc = "exec_cpu" THEN "idle" ELSE "run_loop"]_vars

\* A process whose cycle raised UnknownOpcode on its loaded program is
\* Terminated, and the next executeProcess, of another process, is under way.
C8_Witness ==
    /\ pc = "exec_cpu"
    /\ \E i \in 1..Len(queue) :
          /\ i # process
          /\ queue[i].state = "terminated"
          /\ Cycle(queue[i]).error = "UnknownOpcode"
          /\ queue[i].memory # NewStorage(Len(queue[i].memory))

\* C9: executeProcess(pid) and loadProgramIntoProcess(pid, text) with a pid
\* that has no entry in the process table raise ProcessNotFound and leave the
\* processes, the process table and the scheduler as they were.
C9_NotFoundChangesNothing ==
    [][\A pid \in Pids :
          (/\ processes[pid] = 0
           /\ \/ ExecuteProcess(pid)
              \/ \E program \in Programs : LoadProgramIntoProcess(pid, program)) =>
              /\ thrown' = "ProcessNotFound"
              /\ UNCHANGED <<queue, processes, currentProcessIndex, timerId,
                             intervals, pc, process>>]_vars

\* A call has raised ProcessNotFound on a coordinator that holds a process.
C9_Witness ==
    /\ thrown = "ProcessNotFound"
    /\ Len(queue) >= 1
    /\ \E pid \in Pids : processes[pid] = 0

\* C10: executeProcess on a process made by createProcess(16, 4) whose memory
\* address 0 holds an ADD with register fields in 0..3 leaves the process
\* Terminated, with the sum of the process's two operand registers in the
\* process's destination register.
C10_ProcessRegistersHoldSum ==
    [][(/\ pc = "exec_cpu"
        /\ Len(queue[process].memory) = 16
        /\ Len(queue[process].registers) = 4
        /\ Opcode(queue[process].memory[1]) = 1
        /\ Operand1(queue[process].memory[1]) < 4
        /\ Operand2(queue[process].memory[1]) < 4
        /\ Destination(queue[process].memory[1]) < 4) =>
          /\ queue'[process].state = "terminated"
          /\ RegisterRead(queue'[process].registers, Destination(queue[process].memory[1]))
                = RegisterRead(queue[process].registers, Operand1(queue[process].memory[1]))
                  + RegisterRead(queue[process].registers, Operand2(queue[process].memory[1]))]_vars

\* The word the next cycle of the CPU driven alone fetches, the 4-bit field of
\* a word above the given power of 16, and the step that is a cycle.
Fetched == StorageRead(storage, cpuAlone.instructionPointer)
FieldOf(word, unit) == (ToInt32(word) \div unit) % 16
CycleStep == cpuAlone'.instructionPointer # cpuAlone.instructionPointer

\* What an ADD / SUB cycle leaves: registers[destination] is registers[operand1]
\* + / - registers[operand2] of before, no other register and no memory word
\* has changed, the pointer is one further, nothing was raised.
AddSubDone ==
    LET r == cpuAlone.registers
        a == FieldOf(Fetched, 256)
        b == FieldOf(Fetched, 16)
        d == FieldOf(Fetched, 1)
    IN  /\ raised' = "none"
        /\ RegisterInRange(r, a) /\ RegisterInRange(r, b) /\ RegisterInRange(r, d)
        /\ cpuAlone'.registers =
              [r EXCEPT ![d + 1] = IF FieldOf(Fetched, 4096) = 1
                                   THEN r[a + 1] + r[b + 1]
                                   ELSE r[a + 1] - r[b + 1]]
        /\ storage' = storage
        /\ cpuAlone'.instructionPointer = cpuAlone.instructionPointer + 1

FieldsInRange ==
    /\ RegisterInRange(cpuAlone.registers, FieldOf(Fetched, 256))
    /\ RegisterInRange(cpuAlone.registers, FieldOf(Fetched, 16))
    /\ RegisterInRange(cpuAlone.registers, FieldOf(Fetched, 1))

\* C11 as stated: every cycle on a word with opcode 0x1 or 0x2 sets
\* registers[destination] to the sum / difference of the operand registers,
\* changes nothing else and advances the pointer by 1.
C11_AddSubCycle ==
    [][(CycleStep /\ FieldOf(Fetched, 4096) \in {1, 2}) => AddSubDone]_vars

\* C11 as amended: so it is when the three fields index registers of the bank;
\* when one does not, the cycle raises a TypeError, no register and no memory
\* word changes, and the pointer has still advanced by 1.
C11_AddSubCycleInRange ==
    [][(CycleStep /\ FieldOf(Fetched, 4096) \in {1, 2}) =>
          IF FieldsInRange
          THEN AddSubDone
          ELSE /\ raised' = "TypeError"
               /\ cpuAlone'.registers = cpuAlone.registers
               /\ storage' = storage
               /\ cpuAlone'.instructionPointer = cpuAlone.instructionPointer + 1]_vars

\* Word 0x1120 with R1 = 5, R2 = 10 has run: R0 = 15, pointer 1.
C11_Witness ==
    /\ cpuAlone = [registers |-> <<15, 5, 10, 0>>, instructionPointer |-> 1]
    /\ storage[1] = Num(4384)
    /\ raised = "none"

\* C12: a cycle on a word whose opcode is neither 0x1 nor 0x2 raises
\* UnknownOpcode and leaves every register and every memory word as it was.
C12_UnknownOpcodeChangesNothing ==
    [][(CycleStep /\ FieldOf(Fetched, 4096) \notin {1, 2}) =>
          /\ raised' = "UnknownOpcode"
          /\ cpuAlone'.registers = cpuAlone.registers
          /\ storage' = storage]_vars

\* Word 0x9000 has been executed on a CPU whose R0 held 5.
C12_Witness ==
    /\ raised = "UnknownOpcode"
    /\ cpuAlone.instructionPointer = 1
    /\ storage[1] = Num(36864)
    /\ cpuAlone.registers[1] = 5

\* C13: loadProgramIntoProcess of a program with more tokens than the
\* process's memory has words raises AddressOutOfRange and leaves the length of
\* the memory as it was (Memory.write past the end fails, it does not write).
C13_LoadPastEndRaises ==
    [][\A pid \in Pids, program \in Programs :
          (/\ processes[pid] # 0
           /\ Len(Split(program, ",")) > Len(queue[processes[pid]].memory)
           /\ LoadProgramIntoProcess(pid, program)) =>
              /\ thrown' = "AddressOutOfRange"
              /\ Len(queue'[processes[pid]].memory) = Len(queue[processes[pid]].memory)]_vars

\* C14: every process created is still in the scheduler queue and is still
\* the entry of the process table under its pid.
C14_CreatedProcessesStay ==
    \A i \in 1..Len(queue) : processes[queue[i].pid] = i

\* C15: run() stops the timer it started: when its loop comes to its test with
\* every process Terminated the timer is stopped, and once run() has returned
\* no interval is set.
C15_RunStopsItsTimer ==
    [][/\ (pc = "run_loop" /\ AllTerminated) => (timerId' = 0 /\ intervals' = {})
       /\ pc' = "idle" => intervals' = {}]_vars

\* C16: after stop() has returned and until start() is called again, no
\* callback is delivered.
C16_NoDeliveryAfterStop ==
    lastOp.name = "stop" => delivered = <<>>

\* C17: while run() is executing, every Ready process of the queue is
\* eventually dispatched (Running) and eventually Terminated.
C17_ReadyEventuallyTerminated ==
    \A i \in 1..MaxProcs :
        /\ (pc \in {"run_loop", "run_cpu"} /\ i <= Len(queue) /\ queue[i].state = "ready")
              ~> (i <= Len(queue) /\ queue[i].state = "running")
        /\ (pc \in {"run_loop", "run_cpu"} /\ i <= Len(queue) /\ queue[i].state = "ready")
              ~> (i <= Len(queue) /\ queue[i].state = "terminated")

\* run() has passed the first process, now Terminated, and dispatched the second.
C17_Witness ==
    /\ pc = "run_cpu"
    /\ process = 2
    /\ queue[1].state = "terminated"

\* C18: one cycle of the demo (a storage of 256 words with 0x1120 at address
\* 0, a fresh 4-register CPU with R0 = 5 and R1 = 10) raises nothing and
\* leaves R2 = 15.
C18_DemoLeavesFifteenInR2 ==
    [][(/\ CycleStep
        /\ Len(storage) = 256
        /\ storage[1] = Num(4384)
        /\ storage[2] = Num(0)
        /\ cpuAlone = [registers |-> <<5, 10, 0, 0>>, instructionPointer |-> 0]) =>
          /\ raised' = "none"
          /\ RegisterRead(cpuAlone'.registers, 2) = 15]_vars

\* C19: the cursor of the Scheduler lies in 0 .. max(1, queue length) - 1, and
\* on a non-empty queue schedule() returns a position of the queue.
C19_CursorInQueue ==
    /\ currentProcessIndex >= 0
    /\ currentProcessIndex < (IF Len(queue) = 0 THEN 1 ELSE Len(queue))
    /\ Len(queue) >= 1 =>
          /\ Schedule(queue, currentProcessIndex).process \in 1..Len(queue)
          /\ Schedule(queue, currentProcessIndex).index \in 0..(Len(queue) - 1)

\* schedule() calls before and after the third addProcess: the cursor is on
\* the process added last.
C19_Witness ==
    /\ Len(queue) = 3
    /\ currentProcessIndex = 2
    /\ returned = <<2>>

\* C20: executeProcess(pid) on an existing process that is not Ready changes
\* nothing: no process, nor the table, the scheduler, the timer or the thread
\* of control, and it raises nothing.
C20_ExecuteNotReadyIsNoOp ==
    [][\A pid \in Pids :
          (/\ processes[pid] # 0
           /\ queue[processes[pid]].state # "ready"
           /\ ExecuteProcess(pid)) =>
              /\ thrown' = "none"
              /\ UNCHANGED <<queue, processes, currentProcessIndex, timerId, intervals,
                             pc, process>>]_vars

\* The process a pid names is Terminated and the coordinator is between calls,
\* the last one having raised nothing.
C20_Witness ==
    /\ pc = "idle"
    /\ thrown = "none"
    /\ \A pid \in Pids :
          processes[pid] # 0 /\ queue[processes[pid]].state = "terminated"

====
